---- MODULE Spec2Model ----
(***************************************************************************)
(* A model of the QuickFlicks recommendation service                       *)
(* (backend/app/services.py, backend/app/routes.py).                       *)
(*                                                                         *)
(* A client posts /api/recommendations; the route validates the category   *)
(* and calls RecommendationService.get_recommendations, which answers from *)
(* the process-wide TTL cache or runs the pipeline of the category, ranks  *)
(* the result, stores it and returns the first `limit` items.  Every       *)
(* upstream call (YouTube search, the TMDB endpoints) is one step of the   *)
(* model whose answer is drawn from a small set of responses, failures     *)
(* included.  Time passes in ticks that age the cache entries.             *)
(*                                                                         *)
(* Each behaviour follows the requests made for one (category, query,      *)
(* region) triple, drawn in Init; the limit and the upstream answers vary  *)
(* from request to request.                                                *)
(***************************************************************************)
EXTENDS Integers, Sequences, FiniteSets, TLC

(***************************************************************************)
(* Bounds of the model.                                                    *)
(***************************************************************************)
\* longest item list one upstream response carries
MaxItems == 2
\* random.random() is drawn from {0, 1/RandLevels, ...}, and is nonzero for
\* at most MaxBoost items of one ranking pass
RandLevels == 2
MaxBoost == 1
\* seconds that pass in one tick of the clock
TickStep == 90
\* distinct keys requested beyond the capacity of the cache, and the entries
\* short of the capacity the fullest-cache runs start from
FillExtra == 2
FillBelow == 50
\* the longest score-sorted list step 5 is run on
ScanMax == 33

(***************************************************************************)
(* Program constants.                                                      *)
(***************************************************************************)
cache_ttl == 180
\* Field(..., min_length=1, max_length=200) of searchQuery
min_length == 1
max_length == 200
maxsize == 1000
\* age in days of the fixed published_at stamps of the fallback catalogs
MockDaysOld == 400

\* the distinct keys of a run that fills the cache
MaxKeys == maxsize + FillExtra

\* Python's None: among strings, among integers, for a details dict
None == "None"
Null == -1
NoDetails == [id |-> Null]

Min(a, b) == IF a < b THEN a ELSE b
Max(a, b) == IF a > b THEN a ELSE b

\* a slice that forgets its bound
SliceAll(seq, n) == seq

\* Python's seq[:n] for n >= 0
Slice(seq, n) == SubSeq(seq, 1, Min(n, Len(seq)))

Range(seq) == {seq[i] : i \in 1..Len(seq)}

SeqsUpTo(S, n) == UNION {[1..k -> S] : k \in 0..n}

(***************************************************************************)
(* Strings.  The state holds a string by name; the operations the code     *)
(* performs on strings (concatenation into the cache key, lower(), the     *)
(* substring test) work on its characters.                                 *)
(***************************************************************************)
Digit == <<"0", "1", "2", "3", "4", "5", "6", "7", "8", "9">>

\* the characters of a decimal numeral
RECURSIVE Numeral(_)
Numeral(n) ==
    IF n < 10 THEN <<Digit[n + 1]>>
    ELSE Append(Numeral(n \div 10), Digit[(n % 10) + 1])

Chars(s) ==
    CASE s = "batman" -> <<"b", "a", "t", "m", "a", "n">>
      [] s = "Man" -> <<"M", "a", "n">>
      [] s = "zz" -> <<"z", "z">>
      [] s = "avengers" -> <<"a", "v", "e", "n", "g", "e", "r", "s">>
      [] s = "inception" -> <<"i", "n", "c", "e", "p", "t", "i", "o", "n">>
      [] s = "spider-man" -> <<"s", "p", "i", "d", "e", "r", "-", "m", "a", "n">>
      [] s = "movies" -> <<"m", "o", "v", "i", "e", "s">>
      [] s = "tv" -> <<"t", "v">>
      [] s = "youtube" -> <<"y", "o", "u", "t", "u", "b", "e">>
      [] s = "tiktok" -> <<"t", "i", "k", "t", "o", "k">>
      [] s = "invalid" -> <<"i", "n", "v", "a", "l", "i", "d">>
      [] s = "US" -> <<"U", "S">>
      [] s = "GB" -> <<"G", "B">>
      [] s = "" -> <<>>
      [] s = "  " -> <<" ", " ">>
      [] s = " zz" -> <<" ", "z", "z">>
      [] s = "zz:US" -> <<"z", "z", ":", "U", "S">>
      [] s = "US:GB" -> <<"U", "S", ":", "G", "B">>
      [] OTHER -> Numeral(CHOOSE n \in 1..MaxKeys : ToString(n) = s)

LowerChar(ch) ==
    CASE ch = "M" -> "m"
      [] ch = "U" -> "u"
      [] ch = "S" -> "s"
      [] OTHER -> ch

\* str.lower()
Lower(cs) == [i \in 1..Len(cs) |-> LowerChar(cs[i])]

\* Python's `a in b` on strings
IsSubstring(a, b) ==
    \E i \in 0..(Len(b) - Len(a)) : SubSeq(b, i + 1, i + Len(a)) = a

\* str.strip(): the leading and trailing whitespace removed
RECURSIVE LStrip(_)
LStrip(cs) == IF cs # <<>> /\ Head(cs) = " " THEN LStrip(Tail(cs)) ELSE cs

RECURSIVE RStrip(_)
RStrip(cs) ==
    IF cs # <<>> /\ cs[Len(cs)] = " " THEN RStrip(SubSeq(cs, 1, Len(cs) - 1)) ELSE cs

\* a validator that does not strip
NoStrip(cs) == cs

Strip(cs) == RStrip(LStrip(cs))

(***************************************************************************)
(* The requests of the model.                                              *)
(***************************************************************************)
valid_categories == <<"movies", "tv", "youtube", "tiktok">>
Categories == Range(valid_categories) \cup {"invalid"}
Queries == {"batman", "Man", "zz"}
\* bodies whose searchQuery is empty, is whitespace only, or is padded
BlankQueries == {"", "  "}
PaddedQueries == {" zz"}
Regions == {"US", "GB"}
Limits == {1, 6, 50}

\* the query only selects the fallback bucket of the structured pipeline:
\* every query is followed for movies, one query for the other categories
Sessions ==
    {s \in [category : Categories, query : Queries, region : {"US"}] :
        s.category = "movies" \/ s.query = "batman"}
    \cup [category : {"youtube"}, query : BlankQueries \cup PaddedQueries,
          region : {"US"}]
    \cup [category : {"movies"}, query : {"batman"}, region : Regions \ {"US"}]

\* the requests that can be in flight at once (tasks of the event loop); the
\* sequential specifications run the first only
Handlers == {"c1", "c2"}
Clients == {"c1"}

(***************************************************************************)
(* ContentItem: id, platform tag, published_at (as the age in days at the  *)
(* time of ranking, Null when the stamp does not parse).                   *)
(***************************************************************************)
Item(id, platform, published) ==
    [id |-> id, platform |-> platform, published |-> published]

Ids(items) == [i \in 1..Len(items) |-> items[i].id]

(***************************************************************************)
(* The fallback catalogs.                                                  *)
(***************************************************************************)
MockYoutubeIds ==
    <<"jk7GA4EZZrw", "h4T_LlK1VE4", "IxkSlnrRFqc", "TUXpoM9OY3M",
      "5iPH-br_eJQ", "jHbyQ_AQP8c", "rf0Lsjewg8c", "jG7dSXcfVqE">>

MockShortsIds ==
    <<"nXA_f0xBSjw", "8VGF-rQqF7Q", "2g6J6vT5mBU", "J---aiyznGQ", "0FTw0UHb3vw",
      "dQw4w9WgXcQ", "9bZkp7q19f0", "K5le9sYdYkM", "YbJOTdZBX1g", "2Vv-BfVoq4g">>

\* the keys of the `recommendations` dict, in insertion order
MockMovieKeys == <<"avengers", "inception", "spider-man", "batman">>

MockMovieBucket(key) ==
    CASE key = "avengers" ->
           <<"8ugaeA-nMTc", "7SlILk2WMTI", "JOddp-nlNvQ", "d96cjJhvlMA",
             "xjDjIWPwcPU", "HSzx-zryEgM">>
      [] key = "inception" ->
           <<"zSWdZVtXT7E", "5iaYLCiq5RM", "o4gHCmTQDVI", "HDWylEQSwFo",
             "AZGcmvrTX9M", "m8e-FF8MsqU">>
      [] key = "spider-man" ->
           <<"JfVOs4VSpmA", "g4Hbz2jLxvQ", "DyLUwOcR5pk", "rk-dF1lIbIg",
             "Nt9L1jCKGnE", "u9Mv98Gr5pY">>
      [] key = "batman" ->
           <<"mqqft2x_Aa4", "EXeTwQWrcwY", "neY2xVmOfUM", "zAGVQLHvwOY",
             "3cxixDgHUYw", "T6DJcgm3wNY">>

MockMovieDefault ==
    <<"Way9Dexny3w", "uYPbbksJxIg", "pBk4NYhWNMM", "73_1biulkYk",
      "wS_qbDztgVY", "giXco2jaZ_4">>

MockItems(ids, platform) ==
    [i \in 1..Len(ids) |-> Item(ids[i], platform, MockDaysOld)]

\* _get_mock_youtube_results
MockYoutubeResults == MockItems(MockYoutubeIds, "youtube")

\* _get_mock_shorts_results
MockShortsResults == MockItems(MockShortsIds, "tiktok")

\* the first key of the dict, from position i on, that contains the query or
\* is contained in it; 0 when there is none (the for ... else of the code)
RECURSIVE FirstPartialMatch(_, _)
FirstPartialMatch(q, i) ==
    IF i > Len(MockMovieKeys) THEN 0
    ELSE IF \/ IsSubstring(Chars(MockMovieKeys[i]), q)
            \/ IsSubstring(q, Chars(MockMovieKeys[i]))
         THEN i
         ELSE FirstPartialMatch(q, i + 1)

\* the bucket _get_mock_movie_results selects for a query
MockMovieVideos(query) ==
    LET q == Lower(Chars(query))
        exact == {i \in 1..Len(MockMovieKeys) : Chars(MockMovieKeys[i]) = q}
        part == FirstPartialMatch(q, 1)
    IN  IF exact # {} THEN MockMovieBucket(MockMovieKeys[CHOOSE i \in exact : TRUE])
        ELSE IF part # 0 THEN MockMovieBucket(MockMovieKeys[part])
        ELSE MockMovieDefault

\* the fallback items under a fixed platform tag
MockMovieResultsUntagged(query, category) == MockItems(MockMovieVideos(query), "youtube")

\* _get_mock_movie_results
MockMovieResults(query, category) == MockItems(MockMovieVideos(query), category)

(***************************************************************************)
(* The result cache: cachetools.TTLCache(maxsize, ttl).  The entries are   *)
(* kept in the order of their last use (oldest first); an entry carries    *)
(* the seconds since it was written, capped at the TTL.                    *)
(***************************************************************************)
\* cache_key = f"{category}:{search_query}:{region}"
CacheKey(category, query, region) ==
    Chars(category) \o <<":">> \o Chars(query) \o <<":">> \o Chars(region)

CacheStored(c, key) == {i \in 1..Len(c) : c[i].key = key}

\* an entry that still counts at the instant it expires
LiveAtExpiry(e) == e.age <= cache_ttl

\* an entry is live while timer() < expires
Live(e) == e.age < cache_ttl

\* `cache_key in recommendation_cache`
\* a service that recomputes on every call
CacheLookupOff(c, key) == FALSE

CacheContains(c, key) == \E i \in CacheStored(c, key) : Live(c[i])

\* the stored list of a key
CacheItems(c, key) == c[CHOOSE i \in CacheStored(c, key) : TRUE].items

\* a read that takes the entry out of the cache
CachePop(c, key) == SelectSeq(c, LAMBDA e : e.key # key)

\* recommendation_cache[cache_key] moves the entry to the end of the use order
CacheTouch(c, key) ==
    SelectSeq(c, LAMBDA e : e.key # key) \o SelectSeq(c, LAMBDA e : e.key = key)

\* a write that never makes room
CacheSetUnbounded(c, key, value) ==
    Append(SelectSeq(SelectSeq(c, Live), LAMBDA e : e.key # key),
           [key |-> key, items |-> value, age |-> 0])

\* recommendation_cache[cache_key] = value: drop the expired entries, make
\* room by dropping the least recently used entry, store with a fresh TTL
CacheSet(c, key, value) ==
    LET live == SelectSeq(c, Live)
        others == SelectSeq(live, LAMBDA e : e.key # key)
        room == IF Len(others) = Len(live) /\ Len(live) >= maxsize
                THEN Tail(others) ELSE others
    IN  Append(room, [key |-> key, items |-> value, age |-> 0])

\* the clock advances by d seconds; the value of an expired entry is never
\* read again (only the entry itself stays until the next write), so the
\* model forgets it
CacheAge(c, d) ==
    [i \in 1..Len(c) |->
        IF c[i].age + d < cache_ttl THEN [c[i] EXCEPT !.age = @ + d]
        ELSE [c[i] EXCEPT !.age = cache_ttl, !.items = <<>>]]

(***************************************************************************)
(* The ranking pass.  Scores are scaled by 3650 * RandLevels to stay       *)
(* integers: score = 0.7 * max(0, 1 - days_old / 365) + 0.3 * random().    *)
(***************************************************************************)
ItemScore(item, r) ==
    (IF item.published = Null THEN 0
     ELSE 7 * RandLevels * Max(0, 365 - item.published))
    + 3 * 365 * r

\* the place in a descending sort that puts the later of two equal keys first
SortedPlaceUnstable(keys, i) ==
    Cardinality({j \in 1..Len(keys) :
                    keys[j] > keys[i] \/ (keys[j] = keys[i] /\ j > i)}) + 1

\* list.sort(key=..., reverse=True): descending and stable.  The place of
\* item i in the sorted list: after the items with a larger key and after
\* the earlier items with the same key
SortedPlace(keys, i) ==
    Cardinality({j \in 1..Len(keys) :
                    keys[j] > keys[i] \/ (keys[j] = keys[i] /\ j < i)}) + 1

\* the sorted list from place r on
RECURSIVE SortedFrom(_, _, _)
SortedFrom(items, keys, r) ==
    IF r > Len(items) THEN <<>>
    ELSE <<items[CHOOSE i \in 1..Len(items) : SortedPlace(keys, i) = r]>>
         \o SortedFrom(items, keys, r + 1)

SortDescBy(items, keys) == SortedFrom(items, keys, 1)

\* the values random.random() may return for the n items of one pass
RandomDraws(n) ==
    {[i \in 1..n |-> IF i \in S THEN v ELSE 0] :
        S \in {T \in SUBSET (1..n) : Cardinality(T) <= MaxBoost},
        v \in 0..(RandLevels - 1)}

\* _score_and_rank, the random values given
ScoreAndRank(results, rnd) ==
    IF results = <<>> THEN <<>>
    ELSE SortDescBy(results, [i \in 1..Len(results) |-> ItemScore(results[i], rnd[i])])

\* a miss that writes the list as the pipeline returned it
ComputedStoresUnranked(results, rnd, limit) ==
    [stored |-> results, returned |-> Slice(ScoreAndRank(results, rnd), limit)]

\* the end of get_recommendations on a miss: the list written to the cache and
\* the list returned
Computed(results, rnd, limit) ==
    LET scored_results == ScoreAndRank(results, rnd)
    IN  [stored |-> scored_results, returned |-> Slice(scored_results, limit)]

(***************************************************************************)
(* Outcomes of a call: a returned value or a raised exception.             *)
(***************************************************************************)
Return(v) == [raised |-> FALSE, value |-> v]
Raise == [raised |-> TRUE, value |-> <<>>]

(***************************************************************************)
(* The YouTube search catalog.  A response fails (network error, timeout,  *)
(* non-2xx status), carries an error payload, or lists items; an item is a *)
(* video id, or None for an item without videoId.                          *)
(***************************************************************************)
VideoIds == {"v1", "v2"}

\* days since the video was published
VideoDaysOld(id) == IF id = "v1" THEN 400 ELSE 0

YtResponses ==
    {[kind |-> "fail", items |-> <<>>], [kind |-> "error", items |-> <<>>]}
    \cup {[kind |-> "ok", items |-> s] : s \in SeqsUpTo(VideoIds \cup {None}, MaxItems)}

Failed(response) == response.kind \in {"fail", "error"}

\* the items _transform_youtube_item keeps, tagged with a platform
RECURSIVE TransformItems(_, _)
TransformItems(raw, platform) ==
    IF raw = <<>> THEN <<>>
    ELSE IF Head(raw) = None THEN TransformItems(Tail(raw), platform)
    ELSE <<Item(Head(raw), platform, VideoDaysOld(Head(raw)))>>
         \o TransformItems(Tail(raw), platform)

\* the try block of _get_youtube_recommendations
YoutubeTry(response) ==
    IF response.kind = "fail" THEN Raise
    ELSE IF response.kind = "error" THEN Return(MockYoutubeResults)
    ELSE LET results == TransformItems(response.items, "youtube")
         IN  Return(IF results # <<>> THEN results ELSE MockYoutubeResults)

\* the search without its except clause
GetYoutubeRecommendationsUncaught(response) == YoutubeTry(response)

\* _get_youtube_recommendations
GetYoutubeRecommendations(response) ==
    IF YoutubeTry(response).raised THEN Return(MockYoutubeResults)
    ELSE YoutubeTry(response)

\* a loop whose failed pass loses what the passes before found
TiktokVariantLosing(results, response) ==
    IF response.kind = "fail" THEN <<>>
    ELSE results \o TransformItems(response.items, "tiktok")

\* one pass of the loop of _get_tiktok_style_recommendations
TiktokVariant(results, response) ==
    IF response.kind = "fail" THEN results
    ELSE results \o TransformItems(response.items, "tiktok")

\* the items whose id no earlier item carries
RECURSIVE UniqueById(_, _)
UniqueById(items, seen) ==
    IF items = <<>> THEN <<>>
    ELSE IF Head(items).id \in seen THEN UniqueById(Tail(items), seen)
    ELSE <<Head(items)>> \o UniqueById(Tail(items), seen \cup {Head(items).id})

\* the end of _get_tiktok_style_recommendations
\* the end of the short-form pipeline without its fallback catalog
TiktokResultsNoMock(results) == Slice(UniqueById(results, {}), 15)

TiktokResults(results) ==
    LET unique_results == UniqueById(results, {})
    IN  IF unique_results # <<>> THEN Slice(unique_results, 15) ELSE MockShortsResults

\* _search_youtube_content
SearchYoutubeContent(response) ==
    IF response.kind = "fail" THEN <<>>
    ELSE TransformItems(response.items, "youtube")

(***************************************************************************)
(* The TMDB catalog.  The query resolves to entry 1; the entries differ in *)
(* popularity (entry 4 is below the popularity threshold) and release      *)
(* date.  Which entries a response lists, the details payloads and the     *)
(* watch providers are drawn per call.                                     *)
(***************************************************************************)
MovieIds == {1, 2, 3, 4}

Popularity(id) == CASE id = 1 -> 40 [] id = 2 -> 20 [] id = 3 -> 30 [] OTHER -> 5

\* days since release_date; Null for an entry without a release date
ReleaseDaysOld(id) == CASE id = 2 -> Null [] id = 3 -> 100 [] OTHER -> 4000

FailedResponse == [kind |-> "fail"]

\* /search/{media_type}
SearchResponses ==
    {FailedResponse} \cup {[kind |-> "ok", results |-> s] : s \in {<<>>, <<1>>}}

\* /{media_type}/{id}/similar and /discover/{media_type}
ListResponses ==
    {FailedResponse} \cup {[kind |-> "ok", results |-> s] : s \in SeqsUpTo(MovieIds, MaxItems)}

DiscoverResponses == ListResponses \cup {[kind |-> "non200"]}

\* /{media_type}/{id} payloads: vote_average is held times 10
PayloadA ==
    [director |-> "Nolan", cast |-> <<"Bale", "Caine">>,
     genres |-> <<"Action", "Drama">>, keywords |-> <<"vigilante">>,
     companies |-> <<"Warner">>, budget |-> 150, runtime |-> 152,
     vote_average |-> 85, release_year |-> 2008, collection |-> "Dark Knight"]

PayloadB ==
    [director |-> None, cast |-> <<"Bale">>, genres |-> <<>>, keywords |-> <<>>,
     companies |-> <<>>, budget |-> 0, runtime |-> 0, vote_average |-> 0,
     release_year |-> Null, collection |-> None]

DetailsPayloads == {PayloadA, PayloadB}

\* a payload long enough for every capped factor to reach its cap
PayloadC ==
    [director |-> "Nolan",
     cast |-> <<"Bale", "Caine", "Oldman", "Freeman", "Ledger", "Eckhart", "Murphy">>,
     genres |-> <<"Action", "Drama", "Crime">>,
     keywords |-> <<"vigilante", "joker", "gotham", "mask", "chaos", "ferry",
                    "hospital", "bank">>,
     companies |-> <<"Warner", "Legendary", "Syncopy">>, budget |-> 185,
     runtime |-> 150, vote_average |-> 80, release_year |-> 2010,
     collection |-> "Dark Knight"]

DetailsResponses ==
    {FailedResponse} \cup {[kind |-> "ok", payload |-> p] : p \in DetailsPayloads}

\* /{media_type}/{id}/watch/providers: the provider ids `results` lists for
\* each region, for titles whose availability differs between the regions
ProvidersPayloads ==
    {[US |-> [flatrate |-> <<>>, buy |-> <<>>],
      GB |-> [flatrate |-> <<8>>, buy |-> <<>>]],
     [US |-> [flatrate |-> <<15, 9>>, buy |-> <<8>>],
      GB |-> [flatrate |-> <<>>, buy |-> <<>>]],
     [US |-> [flatrate |-> <<999>>, buy |-> <<2, 15, 8, 9>>],
      GB |-> [flatrate |-> <<337>>, buy |-> <<>>]]}

ProvidersResponses ==
    {FailedResponse} \cup {[kind |-> "ok", payload |-> p] : p \in ProvidersPayloads}

MediaType(category) == IF category = "movies" THEN "movie" ELSE "tv"

\* _search_tmdb: the id of the first result, Null on no result or failure
SearchTmdb(response) ==
    IF response.kind = "fail" THEN Null
    ELSE IF response.results # <<>> THEN Head(response.results) ELSE Null

\* _get_tmdb_details: NoDetails on failure
GetTmdbDetails(media_id, media_type, response) ==
    IF response.kind = "fail" THEN NoDetails
    ELSE LET data == response.payload
         IN  [id |-> media_id,
              director |-> IF media_type = "movie" THEN data.director ELSE None,
              cast |-> Slice(data.cast, 10),
              genres |-> data.genres,
              keywords |-> Slice(data.keywords, 15),
              companies |-> Slice(data.companies, 5),
              budget |-> IF media_type = "movie" THEN data.budget ELSE 0,
              runtime |-> data.runtime,
              rating |-> data.vote_average,
              release_year |-> data.release_year,
              collection |-> IF media_type = "movie" THEN data.collection ELSE None]

\* the ids of a sequence, each kept at its first position (dict insertion)
RECURSIVE DictKeys(_, _)
DictKeys(ids, seen) ==
    IF ids = <<>> THEN <<>>
    ELSE IF Head(ids) \in seen THEN DictKeys(Tail(ids), seen)
    ELSE <<Head(ids)>> \o DictKeys(Tail(ids), seen \cup {Head(ids)})

\* _get_tmdb_similar: popular entries, most popular first, top 20
GetTmdbSimilar(response) ==
    IF response.kind = "fail" THEN <<>>
    ELSE LET popular == SelectSeq(Slice(response.results, 30),
                                  LAMBDA id : Popularity(id) > 10)
         IN  Slice(SortDescBy(popular, [i \in 1..Len(popular) |-> Popularity(popular[i])]), 20)

\* strategy 1 of _get_tmdb_recommendations_multi_strategy
SimilarCandidates(response) == DictKeys(GetTmdbSimilar(response), {})

\* strategy 2 without the `not in all_candidates` test
DiscoverAddsSeen(all_candidates, media_id, results) ==
    SelectSeq(Slice(results, 15),
              LAMBDA id : id # media_id /\ Popularity(id) > 10)

\* strategy 2: the entries the discover response adds to all_candidates
DiscoverAdds(all_candidates, media_id, results) ==
    DictKeys(SelectSeq(Slice(results, 15),
                       LAMBDA id : /\ id \notin Range(all_candidates)
                                   /\ id # media_id
                                   /\ Popularity(id) > 10),
             {})

\* the return of _get_tmdb_recommendations_multi_strategy once the discover
\* call has answered
MultiStrategy(all_candidates, media_id, response) ==
    IF response.kind = "fail" THEN all_candidates
    ELSE IF response.kind = "non200" THEN Slice(all_candidates, 30)
    ELSE Slice(all_candidates \o DiscoverAdds(all_candidates, media_id, response.results), 30)

(***************************************************************************)
(* The similarity score, doubled to stay an integer (7.5 per shared        *)
(* company); ratings are held times 10.                                    *)
(***************************************************************************)
Overlap(a, b) == Cardinality(Range(a) \cap Range(b))

\* a difference that keeps its sign
Signed(x) == x

Abs(x) == IF x < 0 THEN -x ELSE x

\* a bonus for any candidate that belongs to a collection
FranchiseBonusAnyCollection(source_details, candidate_details) ==
    IF source_details.collection # None /\ candidate_details.collection # None
    THEN 2 * 50 ELSE 0

\* factor 1: same franchise/collection
FranchiseBonus(source_details, candidate_details) ==
    IF /\ source_details.collection # None
       /\ candidate_details.collection # None
       /\ source_details.collection = candidate_details.collection
    THEN 2 * 50 ELSE 0

\* the ten factors of _score_recommendations for one candidate
SimilarityScore(source_details, candidate_details) ==
    LET s == source_details
        c == candidate_details
    IN  FranchiseBonus(s, c)
      + (IF s.director # None /\ c.director # None /\ s.director = c.director
         THEN 2 * 30 ELSE 0)
      + 2 * Min(Overlap(s.cast, c.cast) * 5, 25)
      + 2 * Min(Overlap(s.genres, c.genres) * 10, 20)
      + 2 * Min(Overlap(s.keywords, c.keywords) * 2, 15)
      + Min(Overlap(s.companies, c.companies) * 15, 2 * 15)
      + (IF s.budget > 0 /\ c.budget > 0
            /\ 2 * Min(s.budget, c.budget) > Max(s.budget, c.budget)
         THEN 2 * 10 ELSE 0)
      + (IF s.runtime > 0 /\ c.runtime > 0 /\ Abs(s.runtime - c.runtime) < 30
         THEN 2 * 5 ELSE 0)
      + (IF s.rating > 0 /\ c.rating > 0 /\ Abs(s.rating - c.rating) < 15
         THEN 2 * 5 ELSE 0)
      + (IF s.release_year # Null /\ c.release_year # Null
            /\ Abs(s.release_year - c.release_year) <= 5
         THEN 2 * 5 ELSE 0)

\* the loop of _score_recommendations: details[id] is the details response
\* for candidate id
RECURSIVE ScoreLoop(_, _, _, _)
ScoreLoop(source_details, candidates, media_type, details) ==
    IF candidates = <<>> THEN <<>>
    ELSE LET id == Head(candidates)
             rest == ScoreLoop(source_details, Tail(candidates), media_type, details)
             candidate_details == GetTmdbDetails(id, media_type, details[id])
         IN  IF id = source_details.id THEN rest
             ELSE IF candidate_details = NoDetails THEN rest
             ELSE <<[id |-> id,
                     score |-> SimilarityScore(source_details, candidate_details)]>>
                  \o rest

\* _score_recommendations
ScoreRecommendations(source_details, candidates, media_type, details) ==
    LET scored == ScoreLoop(source_details, candidates, media_type, details)
    IN  SortDescBy(scored, [i \in 1..Len(scored) |-> scored[i].score])

(***************************************************************************)
(* Availability.                                                           *)
(***************************************************************************)
provider_mapping ==
    (8 :> "netflix") @@ (9 :> "prime") @@ (337 :> "disney") @@ (15 :> "hulu")
    @@ (384 :> "hbo") @@ (350 :> "apple") @@ (386 :> "peacock")

MappedPlatforms(provider_ids) ==
    LET known == SelectSeq(provider_ids, LAMBDA id : id \in DOMAIN provider_mapping)
    IN  [i \in 1..Len(known) |-> provider_mapping[known[i]]]

\* _get_tmdb_watch_providers: the platform tags, [] on failure
GetTmdbWatchProviders(response) ==
    IF response.kind = "fail" THEN <<>>
    ELSE LET us_data == response.payload.US
             providers == MappedPlatforms(us_data.flatrate)
         IN  IF providers # <<>> THEN providers
             ELSE MappedPlatforms(Slice(us_data.buy, 3))

platform_priority == <<"netflix", "disney", "prime", "hulu", "hbo", "apple", "peacock">>

\* the loop over platform_priority, from position k on
RECURSIVE PriorityLoop(_, _, _)
PriorityLoop(platforms, primary_platform, k) ==
    IF k > Len(platform_priority) THEN primary_platform
    ELSE LET found == IF platform_priority[k] \in Range(platforms)
                      THEN platform_priority[k] ELSE primary_platform
         IN  IF found \in Range(platform_priority) THEN found
             ELSE PriorityLoop(platforms, found, k + 1)

PrimaryPlatform(platforms) == PriorityLoop(platforms, platforms[1], 1)

Card(id, platforms) ==
    [id |-> ToString(id), platform |-> PrimaryPlatform(platforms),
     published |-> ReleaseDaysOld(id), all_platforms |-> platforms]

\* the whole list instead of scored_items[:30]
TopMatchesAll(scored_items) == scored_items

\* scored_items[:30]
TopMatches(scored_items) == Slice(scored_items, 30)

\* the loop returned similar_shows, having asked the providers of `asked`
Scanned(similar_shows, asked) ==
    [raised |-> FALSE, value |-> similar_shows, asked |-> asked]

\* the loop without the `if platforms:` filter
RECURSIVE AvailabilityLoopNoFilter(_, _, _, _, _)
AvailabilityLoopNoFilter(items, similar_shows, providers, malformed, asked) ==
    IF items = <<>> THEN Scanned(similar_shows, asked)
    ELSE LET id == Head(items).id
             platforms == GetTmdbWatchProviders(providers[id])
             shows == Append(similar_shows,
                        [id |-> ToString(id),
                         platform |-> IF platforms # <<>>
                                      THEN PrimaryPlatform(platforms) ELSE None,
                         published |-> ReleaseDaysOld(id),
                         all_platforms |-> platforms])
         IN  IF id \in malformed THEN Raise
             ELSE IF Len(shows) >= 15 THEN Scanned(shows, Append(asked, id))
             ELSE AvailabilityLoopNoFilter(Tail(items), shows, providers, malformed,
                                           Append(asked, id))

\* step 5 of _find_similar_shows over the candidates left to visit:
\* providers[id] is the providers response for candidate id, malformed the
\* candidates whose overview is null (the first one met ends the loop),
\* asked the candidates whose providers have been requested
RECURSIVE AvailabilityLoop(_, _, _, _, _)
AvailabilityLoop(items, similar_shows, providers, malformed, asked) ==
    IF items = <<>> THEN Scanned(similar_shows, asked)
    ELSE LET id == Head(items).id
             platforms == GetTmdbWatchProviders(providers[id])
         IN  IF platforms # <<>> /\ id \in malformed THEN Raise
             ELSE LET shows == IF platforms # <<>>
                               THEN Append(similar_shows, Card(id, platforms))
                               ELSE similar_shows
                  IN  IF Len(shows) >= 15 THEN Scanned(shows, Append(asked, id))
                      ELSE AvailabilityLoop(Tail(items), shows, providers, malformed,
                                            Append(asked, id))

\* the end of the pipeline without the fallback catalog
MovieRecommendationsNoMock(similar_shows, query, category) == Slice(similar_shows, 15)

\* the end of _get_movie_recommendations
MovieRecommendations(similar_shows, query, category) ==
    IF similar_shows # <<>> THEN Slice(similar_shows, 15)
    ELSE MockMovieResults(query, category)

(***************************************************************************)
(* The route.                                                              *)
(***************************************************************************)
\* the except clause of the route handler: whatever the try block raised,
\* the HTTPException of the category check included, is answered with 500
RouteExcept(raised) == 500

\* the status answered to a category outside valid_categories
InvalidCategoryStatus == RouteExcept(400)

\* the f-string of the "similar to" fallback search uses the category and
\* the query; search_strategies of the short-form pipeline
search_strategies == <<"tiktok viral", "#shorts">>

(***************************************************************************)
(* State.                                                                  *)
(***************************************************************************)
VARIABLES
    session,     \* the (category, query, region) the requests are made for
    cache,       \* recommendation_cache
    pc,          \* where each client's request stands
    req,         \* the arguments of the client's current request
    idx,         \* loop position of the short-form pipeline
    media_id,    \* the seed entry the structured pipeline resolved
    source,      \* source_details
    candidates,  \* all_candidates, then scored_items (until the request answers)
    results,     \* the list the pipeline returned
    calls,       \* the upstream endpoints the current request has called (and
                 \* a mark when the discover call raised)
    allfail,     \* whether every upstream call of the current request failed
    resp,        \* the client's last response: status, items, request, hit
    elapsed,     \* seconds since that response, capped at the TTL
    prev,        \* the items of the response before, when the current request
                 \* repeats its arguments within the TTL
    probe        \* the inputs and results of a scoring pass run on its own

vars == <<session, cache, pc, req, idx, media_id, source, candidates, results,
          calls, allfail, resp, elapsed, prev, probe>>

NoRequest == [category |-> None, query |-> None, region |-> None, limit |-> 0]
NoResponse == [status |-> 0, items |-> <<>>, req |-> NoRequest, hit |-> FALSE]
NoPrevious == [repeat |-> FALSE, items |-> <<>>]

NoProbe == [phase |-> "off"]

\* no handler is running and no client holds a response
Quiescent ==
    /\ pc = [c \in Handlers |-> "idle"]
    /\ req = [c \in Handlers |-> NoRequest]
    /\ idx = [c \in Handlers |-> 0]
    /\ media_id = [c \in Handlers |-> Null]
    /\ source = [c \in Handlers |-> NoDetails]
    /\ candidates = [c \in Handlers |-> <<>>]
    /\ results = [c \in Handlers |-> <<>>]
    /\ calls = [c \in Handlers |-> {}]
    /\ allfail = [c \in Handlers |-> TRUE]
    /\ resp = [c \in Handlers |-> NoResponse]
    /\ elapsed = [c \in Handlers |-> 0]
    /\ prev = [c \in Handlers |-> NoPrevious]

\* no request has been made
Idle ==
    /\ cache = <<>>
    /\ Quiescent

Init ==
    /\ session \in Sessions
    /\ probe = NoProbe
    /\ Idle

Key(r) == CacheKey(r.category, r.query, r.region)

\* the pipeline get_recommendations dispatches a category to
Dispatch(category) ==
    CASE category = "youtube" -> "youtube"
      [] category = "tiktok" -> "tiktok"
      [] category \in {"movies", "tv"} -> "tmdb_search"
      [] OTHER -> "rank"

\* the response leaves the route
Respond(c, status, items, r, hit) ==
    /\ resp' = [resp EXCEPT ![c] = [status |-> status, items |-> items,
                                    req |-> r, hit |-> hit]]
    /\ elapsed' = [elapsed EXCEPT ![c] = 0]
    /\ pc' = [pc EXCEPT ![c] = "done"]

\* the locals of a request that has answered
Forget(c) ==
    /\ idx' = [idx EXCEPT ![c] = 0]
    /\ media_id' = [media_id EXCEPT ![c] = Null]
    /\ source' = [source EXCEPT ![c] = NoDetails]
    /\ candidates' = [candidates EXCEPT ![c] = <<>>]
    /\ results' = [results EXCEPT ![c] = <<>>]

Called(c, endpoints, failed) ==
    /\ calls' = [calls EXCEPT ![c] = @ \cup endpoints]
    /\ allfail' = [allfail EXCEPT ![c] = @ /\ failed]

\* a pipeline returned `out` to get_recommendations: an exception goes up to
\* the route, a list goes on to the ranking pass
Returned(c, out) ==
    IF out.raised
    THEN /\ Respond(c, RouteExcept("Exception"), <<>>, req[c], FALSE)
         /\ results' = [results EXCEPT ![c] = <<>>]
    ELSE /\ pc' = [pc EXCEPT ![c] = "rank"]
         /\ results' = [results EXCEPT ![c] = out.value]
         /\ UNCHANGED <<resp, elapsed>>

\* the JSON body a client posts
Body(limit) ==
    [category |-> session.category, query |-> session.query,
     region |-> session.region, limit |-> limit]

\* the string of the model with the given characters
Named(cs) == CHOOSE s \in Queries \cup BlankQueries \cup PaddedQueries : Chars(s) = cs

\* RecommendationRequest: Field(min_length, max_length) on searchQuery, then
\* validate_search_query; TRUE when the body is rejected
ValidationError(body) ==
    LET raw == Chars(body.query)
        v == Strip(raw)
    IN  \/ Len(raw) < min_length
        \/ Len(raw) > max_length
        \/ v = <<>>
        \/ Len(v) > max_length

\* the request model the handler receives: searchQuery is the stripped string
Parsed(body) == [body EXCEPT !.query = Named(Strip(Chars(body.query)))]

\* the status FastAPI answers when the body fails validation
UnprocessableEntity == 422

NewRequest(limit) == Parsed(Body(limit))

(***************************************************************************)
(* POST /recommendations, up to the first await of the service.            *)
(***************************************************************************)
Post(c, r) ==
    /\ pc[c] \in {"idle", "done"}
    /\ req' = [req EXCEPT ![c] = r]
    /\ calls' = [calls EXCEPT ![c] = {}]
    /\ allfail' = [allfail EXCEPT ![c] = TRUE]
    /\ IF r.category \notin Range(valid_categories)
       THEN /\ Respond(c, InvalidCategoryStatus, <<>>, r, FALSE)
            /\ UNCHANGED cache
       ELSE IF CacheContains(cache, Key(r))
       THEN /\ Respond(c, 200, Slice(CacheItems(cache, Key(r)), r.limit), r, TRUE)
            /\ cache' = CacheTouch(cache, Key(r))
       ELSE /\ pc' = [pc EXCEPT ![c] = Dispatch(r.category)]
            /\ resp' = [resp EXCEPT ![c] = NoResponse]
            /\ elapsed' = [elapsed EXCEPT ![c] = 0]
            /\ UNCHANGED cache
    /\ Forget(c)
    /\ UNCHANGED <<session, probe>>

\* the body fails validation: FastAPI answers before the handler runs
Reject(c) ==
    /\ pc[c] \in {"idle", "done"}
    /\ req' = [req EXCEPT ![c] = NoRequest]
    /\ calls' = [calls EXCEPT ![c] = {}]
    /\ allfail' = [allfail EXCEPT ![c] = TRUE]
    /\ Respond(c, UnprocessableEntity, <<>>, NoRequest, FALSE)
    /\ Forget(c)
    /\ UNCHANGED <<session, probe, cache>>

Request(c) ==
    /\ \E limit \in Limits :
          IF ValidationError(Body(limit)) THEN Reject(c)
          ELSE Post(c, NewRequest(limit))
    /\ UNCHANGED prev

\* the same, remembering the response before when the request repeats its
\* arguments less than the TTL after that response
RepeatRequest(c) ==
    \E limit \in Limits :
       LET r == NewRequest(limit)
       IN  /\ ~ValidationError(Body(limit))
           /\ Post(c, r)
           /\ prev' = [prev EXCEPT ![c] =
                  IF resp[c].status = 200 /\ resp[c].req = r /\ elapsed[c] < cache_ttl
                  THEN [repeat |-> TRUE, items |-> resp[c].items]
                  ELSE NoPrevious]

(***************************************************************************)
(* _get_youtube_recommendations: one search call.                          *)
(***************************************************************************)
YoutubeSearch(c) ==
    /\ pc[c] = "youtube"
    /\ \E response \in YtResponses :
         /\ Returned(c, GetYoutubeRecommendations(response))
         /\ Called(c, {"youtube/search"}, Failed(response))
    /\ UNCHANGED <<session, probe, cache, req, idx, media_id, source, candidates, prev>>

(***************************************************************************)
(* _get_tiktok_style_recommendations: one search call per variant.         *)
(***************************************************************************)
\* a loop that starts over when a variant's call fails
RestartOnFailure(i, response) == IF Failed(response) THEN 0 ELSE i + 1

\* the `for` loop over search_strategies: the variant after variant i,
\* whether its call answered or raised (`continue`)
NextVariant(i, response) == i + 1

TiktokSearch(c) ==
    /\ pc[c] = "tiktok"
    /\ \E response \in YtResponses :
         LET found == TiktokVariant(results[c], response)
         IN  /\ Called(c, {"youtube/search"}, Failed(response))
             /\ IF NextVariant(idx[c], response) < Len(search_strategies)
                THEN /\ idx' = [idx EXCEPT ![c] = NextVariant(@, response)]
                     /\ results' = [results EXCEPT ![c] = found]
                     /\ UNCHANGED <<pc, resp, elapsed>>
                ELSE /\ idx' = [idx EXCEPT ![c] = 0]
                     /\ Returned(c, Return(TiktokResults(found)))
    /\ UNCHANGED <<session, probe, cache, req, media_id, source, candidates, prev>>

(***************************************************************************)
(* _find_similar_shows, one step per upstream call.                        *)
(***************************************************************************)
\* a pipeline that goes on to its next step whatever the lookup gave
GoOn(missing, next) == next

\* `if not search_result:` / `if not source_details:` - the step after a
\* lookup: the "similar to" search when it gave nothing, else the next step
EarlyReturn(missing, next) == IF missing THEN "yt_fallback" ELSE next

\* step 1: resolve the query to a catalog entry
TmdbSearch(c) ==
    /\ pc[c] = "tmdb_search"
    /\ \E response \in SearchResponses :
         LET search_result == SearchTmdb(response)
         IN  /\ Called(c, {"tmdb/search"}, response.kind = "fail")
             /\ media_id' = [media_id EXCEPT ![c] = search_result]
             /\ pc' = [pc EXCEPT ![c] = EarlyReturn(search_result = Null, "tmdb_details")]
    /\ UNCHANGED <<session, probe, cache, req, idx, source, candidates, results, resp, elapsed, prev>>

\* step 2: the details of the seed
TmdbDetails(c) ==
    /\ pc[c] = "tmdb_details"
    /\ \E response \in DetailsResponses :
         LET source_details ==
                 GetTmdbDetails(media_id[c], MediaType(req[c].category), response)
         IN  /\ Called(c, {"tmdb/details"}, response.kind = "fail")
             /\ source' = [source EXCEPT ![c] = source_details]
             /\ pc' = [pc EXCEPT ![c] =
                          EarlyReturn(source_details = NoDetails, "tmdb_similar")]
    /\ UNCHANGED <<session, probe, cache, req, idx, media_id, candidates, results, resp, elapsed, prev>>

\* step 3, strategy 1: the similar-items endpoint
TmdbSimilar(c) ==
    /\ pc[c] = "tmdb_similar"
    /\ \E response \in ListResponses :
         LET all_candidates == SimilarCandidates(response)
         IN  /\ Called(c, {"tmdb/similar"}, response.kind = "fail")
             /\ IF source[c].genres # <<>>
                THEN /\ candidates' = [candidates EXCEPT ![c] = all_candidates]
                     /\ pc' = [pc EXCEPT ![c] = "tmdb_discover"]
                ELSE /\ candidates' = [candidates EXCEPT ![c] = Slice(all_candidates, 30)]
                     /\ pc' = [pc EXCEPT ![c] = "score"]
    /\ UNCHANGED <<session, probe, cache, req, idx, media_id, source, results, resp, elapsed, prev>>

\* the mark `calls` keeps of a discover call that raised
DiscoverRaised == "tmdb/discover raised"

\* step 3, strategy 2: discovery by genre
TmdbDiscover(c) ==
    /\ pc[c] = "tmdb_discover"
    /\ \E response \in DiscoverResponses :
         /\ Called(c, {"tmdb/discover"}
                      \cup (IF response.kind = "fail" THEN {DiscoverRaised} ELSE {}),
                   response.kind # "ok")
         /\ candidates' = [candidates EXCEPT ![c] =
                              MultiStrategy(candidates[c], media_id[c], response)]
    /\ pc' = [pc EXCEPT ![c] = "score"]
    /\ UNCHANGED <<session, probe, cache, req, idx, media_id, source, results, resp, elapsed, prev>>

\* step 4: the details of every candidate, the scores, the sort
ScoreCandidates(c) ==
    /\ pc[c] = "score"
    /\ \E details \in [Range(candidates[c]) -> DetailsResponses] :
         /\ candidates' = [candidates EXCEPT ![c] =
                ScoreRecommendations(source[c], candidates[c],
                                     MediaType(req[c].category), details)]
         /\ Called(c, IF Range(candidates[c]) \ {media_id[c]} = {} THEN {}
                      ELSE {"tmdb/details"}, FALSE)
    /\ source' = [source EXCEPT ![c] = NoDetails]
    /\ media_id' = [media_id EXCEPT ![c] = Null]
    /\ pc' = [pc EXCEPT ![c] = "avail"]
    /\ UNCHANGED <<session, probe, cache, req, idx, results, resp, elapsed, prev>>

\* step 5: the availability of the top candidates; an exception in the try
\* block of _find_similar_shows leads to the "similar to" search
Availability(c) ==
    /\ pc[c] = "avail"
    /\ LET items == TopMatches(candidates[c])
           ids == {items[i].id : i \in 1..Len(items)}
       IN  \E providers \in [ids -> ProvidersResponses],
              malformed \in {{}} \cup {{id} : id \in ids} :
             LET out == AvailabilityLoop(items, <<>>, providers, malformed, <<>>)
             IN  /\ Called(c, IF ids = {} THEN {}
                              ELSE {"tmdb/providers", "tmdb/title", "tmdb/details"}, FALSE)
                 /\ IF out.raised
                    THEN /\ pc' = [pc EXCEPT ![c] = "yt_fallback"]
                         /\ candidates' = [candidates EXCEPT ![c] = <<>>]
                         /\ UNCHANGED <<results, resp, elapsed>>
                    ELSE /\ Returned(c, Return(MovieRecommendations(
                                      out.value, req[c].query, req[c].category)))
                         /\ UNCHANGED candidates
    /\ UNCHANGED <<session, probe, cache, req, idx, media_id, source, prev>>

\* the "similar to" search of _find_similar_shows
YoutubeFallback(c) ==
    /\ pc[c] = "yt_fallback"
    /\ \E response \in YtResponses :
         /\ Called(c, {"youtube/search"}, Failed(response))
         /\ Returned(c, Return(MovieRecommendations(SearchYoutubeContent(response),
                                                    req[c].query, req[c].category)))
    /\ media_id' = [media_id EXCEPT ![c] = Null]
    /\ source' = [source EXCEPT ![c] = NoDetails]
    /\ UNCHANGED <<session, probe, cache, req, idx, candidates, prev>>

(***************************************************************************)
(* The end of get_recommendations: rank, store, return the first `limit`.  *)
(***************************************************************************)
Finish(c) ==
    /\ pc[c] = "rank"
    /\ \E rnd \in RandomDraws(Len(results[c])) :
         LET out == Computed(results[c], rnd, req[c].limit)
         IN  /\ cache' = CacheSet(cache, Key(req[c]), out.stored)
             /\ Respond(c, 200, out.returned, req[c], FALSE)
    /\ results' = [results EXCEPT ![c] = <<>>]
    /\ candidates' = [candidates EXCEPT ![c] = <<>>]
    /\ UNCHANGED <<session, probe, req, idx, media_id, source, calls, allfail, prev>>

(***************************************************************************)
(* The clock.                                                              *)
(***************************************************************************)
Tick ==
    /\ cache' = CacheAge(cache, TickStep)
    /\ elapsed' = [c \in Handlers |->
                       IF pc[c] = "done" THEN Min(elapsed[c] + TickStep, cache_ttl)
                       ELSE elapsed[c]]
    /\ UNCHANGED <<session, probe, pc, req, idx, media_id, source, candidates, results,
                   calls, allfail, resp, prev>>

Pipeline(c) ==
    \/ YoutubeSearch(c)
    \/ TiktokSearch(c)
    \/ TmdbSearch(c)
    \/ TmdbDetails(c)
    \/ TmdbSimilar(c)
    \/ TmdbDiscover(c)
    \/ ScoreCandidates(c)
    \/ Availability(c)
    \/ YoutubeFallback(c)
    \/ Finish(c)

Next ==
    \/ \E c \in Clients : Request(c) \/ Pipeline(c)
    \/ Tick

Spec == Init /\ [][Next]_vars

(***************************************************************************)
(* The service with calls that answer: every upstream call is made with     *)
(* timeout=self.timeout, so a call a request is waiting for answers, fails  *)
(* or times out, and the event loop resumes the request.                    *)
(***************************************************************************)
InitLive ==
    /\ Init
    /\ session.category \in {"youtube", "tiktok", "movies"}
    /\ session.query = "batman"
    /\ session.region = "US"

SpecLive == InitLive /\ [][Next]_vars /\ \A c \in Clients : WF_vars(Pipeline(c))

(***************************************************************************)
(* The service with a client that compares each response with the one      *)
(* before; the comparison does not depend on the query, so one is followed. *)
(***************************************************************************)
InitRepeat == Init /\ session.query = "batman" /\ session.region = "US"

NextRepeat ==
    \/ \E c \in Clients : RepeatRequest(c) \/ Pipeline(c)
    \/ Tick

SpecRepeat == InitRepeat /\ [][NextRepeat]_vars

(***************************************************************************)
(* Two requests for the same (category, query, region) in flight at once:   *)
(* the handlers interleave at every await.  The video category is followed. *)
(***************************************************************************)
InitPair == Init /\ session = [category |-> "youtube", query |-> "batman", region |-> "US"]

NextPair ==
    \/ \E c \in Handlers : Request(c) \/ YoutubeSearch(c) \/ Finish(c)
    \/ Tick

SpecPair == InitPair /\ [][NextPair]_vars

(***************************************************************************)
(* _score_recommendations run on its own: the details of the source, of a   *)
(* candidate with and without the source's collection, and of a second      *)
(* candidate are drawn in the initial state; the step scores the candidate  *)
(* alone, with and without the shared collection, and in a pool with the    *)
(* source itself and the second candidate.                                  *)
(***************************************************************************)
ScoreSources ==
    {PayloadA, PayloadB, [PayloadA EXCEPT !.collection = None],
     [PayloadB EXCEPT !.collection = "Dark Knight"], PayloadC}

ScoreCandidatePayloads ==
    [director : {None, "Nolan"}, cast : {<<"Bale">>, <<"Caine", "Oldman">>},
     genres : {<<>>, <<"Action">>}, keywords : {<<"vigilante">>},
     companies : {<<>>, <<"Warner">>}, budget : {0, 100}, runtime : {140},
     vote_average : {0, 90}, release_year : {Null, 2012},
     collection : {None, "Dark Knight", "Batman Begins"}]
    \cup {[PayloadC EXCEPT !.collection = None, !.release_year = y,
                           !.vote_average = v, !.runtime = r, !.budget = b] :
             y \in {2010, 2020}, v \in {80, 100}, r \in {150, 190}, b \in {185, 60}}

ProbeInputs ==
    [phase : {"drawn"}, media_type : {"movie", "tv"}, source : ScoreSources,
     candidate : ScoreCandidatePayloads, other : DetailsResponses,
     linked : {<<>>}, plain : {<<>>}, pooled : {<<>>}]

InitScore ==
    /\ session = [category |-> "movies", query |-> "batman", region |-> "US"]
    /\ probe \in {p \in ProbeInputs : p.candidate.collection # p.source.collection}
    /\ Idle

ScoreProbe ==
    /\ probe.phase = "drawn"
    /\ LET ok(p) == [kind |-> "ok", payload |-> p]
           source_details == GetTmdbDetails(1, probe.media_type, ok(probe.source))
           sharing == [probe.candidate EXCEPT !.collection = probe.source.collection]
           details(p) == (1 :> ok(probe.source)) @@ (2 :> ok(p)) @@ (3 :> probe.other)
       IN  probe' = [probe EXCEPT
               !.phase = "scored",
               !.linked = ScoreRecommendations(source_details, <<2>>,
                              probe.media_type, details(sharing)),
               !.plain = ScoreRecommendations(source_details, <<2>>,
                              probe.media_type, details(probe.candidate)),
               !.pooled = ScoreRecommendations(source_details, <<1, 3, 2>>,
                              probe.media_type, details(sharing))]
    /\ UNCHANGED <<session, cache, pc, req, idx, media_id, source, candidates,
                   results, calls, allfail, resp, elapsed, prev>>

NextScore == ScoreProbe

SpecScore == InitScore /\ [][NextScore]_vars

(***************************************************************************)
(* The cache near its capacity.  The service has answered misses for the   *)
(* numbered search queries 1..n, one after the other within the TTL (each  *)
(* found one video, so each stored a list of one item), and the clients of  *)
(* those requests are gone.  Whole calls of get_recommendations follow,     *)
(* each for the next unseen query or for the one before it.  The clock is   *)
(* followed while the cache is full.                                        *)
(***************************************************************************)
FillRequest(n) ==
    [category |-> "youtube", query |-> ToString(n), region |-> "US", limit |-> 6]

\* what a miss of a numbered query stores and returns
FillComputed ==
    LET results_ == GetYoutubeRecommendations([kind |-> "ok", items |-> <<"v2">>]).value
    IN  Computed(results_, [i \in 1..Len(results_) |-> 0], 6)

\* the cache after misses for the queries 1..maxsize
FullCache ==
    [n \in 1..maxsize |->
        [key |-> CacheKey("youtube", ToString(n), "US"),
         items |-> FillComputed.stored, age |-> 0]]

InitFill ==
    /\ session = [category |-> "youtube", query |-> "batman", region |-> "US"]
    /\ \E n \in (maxsize - FillBelow)..maxsize :
          /\ probe = [phase |-> "fill", next |-> n + 1]
          /\ Quiescent
          /\ cache = SubSeq(FullCache, 1, n)

FillCall(c) ==
    /\ probe.phase = "fill"
    /\ pc[c] \in {"idle", "done"}
    /\ \E n \in {probe.next - 1, probe.next} \cap (1..MaxKeys) :
         LET r == FillRequest(n)
             out == FillComputed
         IN  /\ req' = [req EXCEPT ![c] = r]
             /\ IF CacheContains(cache, Key(r))
                THEN /\ Respond(c, 200, Slice(CacheItems(cache, Key(r)), r.limit), r, TRUE)
                     /\ cache' = CacheTouch(cache, Key(r))
                     /\ calls' = [calls EXCEPT ![c] = {}]
                ELSE /\ Respond(c, 200, out.returned, r, FALSE)
                     /\ cache' = CacheSet(cache, Key(r), out.stored)
                     /\ calls' = [calls EXCEPT ![c] = {"youtube/search"}]
             /\ probe' = [probe EXCEPT !.next = Max(@, n + 1)]
    /\ UNCHANGED <<session, idx, media_id, source, candidates, results, allfail, prev>>

FillTick == Len(cache) = maxsize /\ Tick

NextFill ==
    \/ \E c \in Clients : FillCall(c)
    \/ FillTick

SpecFill == InitFill /\ [][NextFill]_vars

(***************************************************************************)
(* Step 5 of _find_similar_shows run on its own, on score-sorted lists      *)
(* longer than its limits: candidate i is the i-th of the list, and which   *)
(* candidates a streaming platform carries follows one of a few patterns.   *)
(***************************************************************************)
ScanPatterns == {"all", "none", "odd", "third", "late", "early"}

\* whether a platform carries candidate id
Carried(pattern, id) ==
    CASE pattern = "all" -> TRUE
      [] pattern = "none" -> FALSE
      [] pattern = "odd" -> id % 2 = 1
      [] pattern = "third" -> id % 3 = 0
      [] pattern = "late" -> id > 20
      [] pattern = "early" -> id <= 16

\* scored_items: n candidates in non-increasing score order
ScanItems(n) == [i \in 1..n |-> [id |-> i, score |-> 2 * ((n - i) \div 2)]]

\* the providers responses: a candidate that is not carried gets an empty
\* payload or a failed call
ScanProviders(pattern, n) ==
    [id \in 1..n |->
        IF Carried(pattern, id)
        THEN [kind |-> "ok",
              payload |-> CHOOSE p \in ProvidersPayloads : p.US.flatrate = <<15, 9>>]
        ELSE IF id % 2 = 0 THEN FailedResponse
        ELSE [kind |-> "ok",
              payload |-> CHOOSE p \in ProvidersPayloads :
                              p.US.flatrate = <<>> /\ p.US.buy = <<>>]]

InitScan ==
    /\ session = [category |-> "movies", query |-> "batman", region |-> "US"]
    /\ probe \in [phase : {"scan"}, n : 0..ScanMax, pattern : ScanPatterns,
                   shows : {<<>>}, asked : {<<>>}]
    /\ Idle

ScanProbe ==
    /\ probe.phase = "scan"
    /\ LET out == AvailabilityLoop(TopMatches(ScanItems(probe.n)), <<>>,
                                   ScanProviders(probe.pattern, probe.n), {}, <<>>)
       IN  probe' = [probe EXCEPT !.phase = "scanned", !.shows = out.value,
                                  !.asked = out.asked]
    /\ UNCHANGED <<session, cache, pc, req, idx, media_id, source, candidates,
                   results, calls, allfail, resp, elapsed, prev>>

NextScan == ScanProbe

SpecScan == InitScan /\ [][NextScan]_vars

(***************************************************************************)
(* Parts of the pipelines run on their own, on inputs drawn in the initial  *)
(* state.                                                                   *)
(***************************************************************************)
\* _get_tmdb_recommendations_multi_strategy: the seed and the two responses
MergeInputs ==
    [phase : {"merge"}, media_id : MovieIds, similar : ListResponses,
     discover : DiscoverResponses, pool : {<<>>}]

\* _get_tmdb_watch_providers: the offers results.US lists, by provider id
\* (999 and 2 are providers outside provider_mapping)
OffersInputs ==
    [phase : {"offers"}, flatrate : SeqsUpTo({8, 15, 999}, 2),
     buy : {<<>>, <<9>>, <<2, 15, 8, 9>>}, platforms : {<<>>}]

\* the video ids "a", "a+1", ... "b"
IdRun(a, b) == [i \in 1..(b - a + 1) |-> ToString(a + i - 1)]

\* _get_tiktok_style_recommendations: the answers of the two search variants,
\* of at most maxResults = 10 items each
ShortsAnswers ==
    {[kind |-> "fail", items |-> <<>>], [kind |-> "ok", items |-> <<>>],
     [kind |-> "ok", items |-> <<"3", None, "3", "4">>]}
    \cup {[kind |-> "ok", items |-> IdRun(a, a + 9)] : a \in {1, 8, 11}}

ShortsInputs ==
    [phase : {"shorts"}, first : ShortsAnswers, second : ShortsAnswers,
     shorts : {<<>>}]

\* get_recommendations: the arguments of two calls; searchQuery and region
\* are any strings
KeyArguments ==
    [category : {"youtube", "tv"}, query : {"zz", "zz:US"}, region : {"US", "GB", "US:GB"}]

KeyInputs == [phase : {"keys"}, writer : KeyArguments, reader : KeyArguments, hit : {FALSE}]

InitParts ==
    /\ session = [category |-> "movies", query |-> "batman", region |-> "US"]
    /\ probe \in MergeInputs \cup OffersInputs \cup ShortsInputs \cup KeyInputs
    /\ Idle

MergeProbe ==
    /\ probe.phase = "merge"
    /\ probe' = [probe EXCEPT
           !.phase = "merged",
           !.pool = MultiStrategy(SimilarCandidates(probe.similar), probe.media_id,
                                  probe.discover)]
    /\ UNCHANGED <<session, cache, pc, req, idx, media_id, source, candidates,
                   results, calls, allfail, resp, elapsed, prev>>

OffersProbe ==
    /\ probe.phase = "offers"
    /\ LET data == [US |-> [flatrate |-> probe.flatrate, buy |-> probe.buy],
                    GB |-> [flatrate |-> <<>>, buy |-> <<>>]]
       IN  probe' = [probe EXCEPT
               !.phase = "resolved",
               !.platforms = GetTmdbWatchProviders([kind |-> "ok", payload |-> data])]
    /\ UNCHANGED <<session, cache, pc, req, idx, media_id, source, candidates,
                   results, calls, allfail, resp, elapsed, prev>>

ShortsProbe ==
    /\ probe.phase = "shorts"
    /\ probe' = [probe EXCEPT
           !.phase = "listed",
           !.shorts = TiktokResults(TiktokVariant(TiktokVariant(<<>>, probe.first),
                                                  probe.second))]
    /\ UNCHANGED <<session, cache, pc, req, idx, media_id, source, candidates,
                   results, calls, allfail, resp, elapsed, prev>>

\* the writer's call stores its list in the empty cache; `hit` is the test
\* `cache_key in recommendation_cache` of the reader's call
KeyProbe ==
    /\ probe.phase = "keys"
    /\ LET written == CacheSet(<<>>, Key(probe.writer), MockYoutubeResults)
       IN  probe' = [probe EXCEPT
               !.phase = "looked up",
               !.hit = CacheContains(written, Key(probe.reader))]
    /\ UNCHANGED <<session, cache, pc, req, idx, media_id, source, candidates,
                   results, calls, allfail, resp, elapsed, prev>>

NextParts ==
    \/ MergeProbe
    \/ OffersProbe
    \/ ShortsProbe
    \/ KeyProbe

SpecParts == InitParts /\ [][NextParts]_vars

(***************************************************************************)
(* Properties.                                                             *)
(***************************************************************************)
\* the client holds a list get_recommendations returned
Answered(c) == pc[c] = "done" /\ resp[c].status = 200

\* the list was computed and every upstream call of the request failed
AllFailed(c) == Answered(c) /\ ~resp[c].hit /\ calls[c] # {} /\ allfail[c]

StructuredCategories == {"movies", "tv"}

IsCard(item) == "all_platforms" \in DOMAIN item

\* C1: the list get_recommendations returns has at most `limit` items, on the
\* cache-miss path and on the cache-hit path, whatever the upstreams answer.
C1_AtMostLimit ==
    \A c \in Clients : Answered(c) => Len(resp[c].items) <= resp[c].req.limit

\* a hit answered with `limit` items out of a longer stored list
C1_Witness ==
    \E c \in Clients :
        /\ Answered(c) /\ resp[c].hit
        /\ Len(resp[c].items) = resp[c].req.limit
        /\ Len(CacheItems(cache, Key(resp[c].req))) > resp[c].req.limit

\* C2 (as claimed): no two items of a list get_recommendations returns have
\* the same id, also when a search response lists one video id twice.
C2_UniqueIds ==
    \A c \in Clients :
        Answered(c) =>
            \A i, j \in 1..Len(resp[c].items) :
                i # j => resp[c].items[i].id # resp[c].items[j].id

\* C3 (as claimed): a call that repeats the arguments of the call before it,
\* less than the TTL after that call answered, returns the same ordered list.
C3_RepeatWithinTtl ==
    \A c \in Clients :
        Answered(c) /\ prev[c].repeat => resp[c].items = prev[c].items

\* C3 (amended): a call that repeats the arguments of the call before it and
\* is served by the cache entry, still live, returns the same ordered list.
C3_RepeatWhileLive ==
    \A c \in Clients :
        Answered(c) /\ prev[c].repeat /\ resp[c].hit => resp[c].items = prev[c].items

\* a repeated call served from the cache with a list of two or more items
C3_Witness ==
    \E c \in Clients :
        Answered(c) /\ prev[c].repeat /\ resp[c].hit /\ Len(resp[c].items) >= 2

\* the static fallback catalog of a request
FallbackCatalog(r) ==
    CASE r.category = "youtube" -> MockYoutubeResults
      [] r.category = "tiktok" -> MockShortsResults
      [] OTHER -> MockMovieResults(r.query, r.category)

\* C4: when every upstream call of a request fails, the returned list is not
\* empty, all its items are items of the static fallback catalog, and it has
\* at most `limit` items.
C4_FallbackGuarantee ==
    \A c \in Clients :
        AllFailed(c) =>
            /\ resp[c].items # <<>>
            /\ Range(resp[c].items) \subseteq Range(FallbackCatalog(resp[c].req))
            /\ Len(resp[c].items) <= resp[c].req.limit

\* a tv request whose catalog search and "similar to" search both failed
C4_Witness ==
    \E c \in Clients :
        /\ AllFailed(c)
        /\ resp[c].req.category = "tv"
        /\ calls[c] = {"tmdb/search", "youtube/search"}
        /\ Len(resp[c].items) = 6

\* C5: a get_recommendations call for a valid category ends with a returned
\* list, never with an error, whichever upstream calls fail at whichever stage.
C5_NeverRaises ==
    \A c \in Clients :
        pc[c] = "done" /\ resp[c].req.category \in Range(valid_categories)
            => resp[c].status = 200

\* the seed was found, its details call failed, and a list came back
C5_Witness ==
    \E c \in Clients :
        /\ Answered(c)
        /\ calls[c] = {"tmdb/search", "tmdb/details", "youtube/search"}
        /\ resp[c].items # <<>>

\* C6: in the structured pipeline a candidate whose resolved platform list is
\* empty is in neither the list the pipeline returns nor the response,
\* whatever its score and however few candidates have platforms.
C6_AvailabilityFilter ==
    \A c \in Clients :
        req[c].category \in StructuredCategories =>
            /\ pc[c] = "rank" =>
                  \A i \in 1..Len(results[c]) :
                      IsCard(results[c][i]) =>
                          /\ results[c][i].all_platforms # <<>>
                          /\ \E k \in 1..Len(candidates[c]) :
                                 results[c][i].id = ToString(candidates[c][k].id)
            /\ Answered(c) =>
                  \A i \in 1..Len(resp[c].items) :
                      IsCard(resp[c].items[i]) => resp[c].items[i].all_platforms # <<>>

\* of two scored candidates only the lower-scored one is in the output
C6_Witness ==
    \E c \in Clients :
        /\ pc[c] = "rank"
        /\ Len(candidates[c]) = 2
        /\ candidates[c][1].score > candidates[c][2].score
        /\ Len(results[c]) = 1
        /\ IsCard(results[c][1])
        /\ results[c][1].id = ToString(candidates[c][2].id)

\* C7: a request that finds a live cache entry for its (category, query,
\* region) is answered with exactly the first `limit` items of the stored
\* list in stored order, with no upstream call, and the entry stays as it
\* was, for any limit.
C7_HitServesStored ==
    [][\A c \in Clients : \A limit \in Limits :
          LET r == NewRequest(limit)
          IN  Request(c) /\ req'[c] = r /\ CacheContains(cache, Key(r)) =>
                LET e == cache[CHOOSE i \in 1..Len(cache) : cache[i].key = Key(r)]
                    n == IF limit < Len(e.items) THEN limit ELSE Len(e.items)
                IN  /\ pc'[c] = "done"
                    /\ resp'[c].status = 200
                    /\ Len(resp'[c].items) = n
                    /\ \A i \in 1..n : resp'[c].items[i] = e.items[i]
                    /\ calls'[c] = {}
                    /\ \E j \in 1..Len(cache') : cache'[j] = e]_vars

\* a hit whose limit is larger than the stored list is long
C7_Witness ==
    \E c \in Clients :
        /\ Answered(c) /\ resp[c].hit /\ calls[c] = {}
        /\ Len(resp[c].items) = 2
        /\ resp[c].req.limit = 6
        /\ CacheContains(cache, Key(resp[c].req))
        /\ CacheItems(cache, Key(resp[c].req)) = resp[c].items

\* the bucket of the fallback catalog a query selects: the bucket of the key
\* equal to the lowercased query, else of the first key that contains it or is
\* contained in it, else the default bucket
SelectedBucket(query) ==
    CASE query = "batman" ->
           <<"mqqft2x_Aa4", "EXeTwQWrcwY", "neY2xVmOfUM", "zAGVQLHvwOY",
             "3cxixDgHUYw", "T6DJcgm3wNY">>
      [] query = "Man" ->
           <<"JfVOs4VSpmA", "g4Hbz2jLxvQ", "DyLUwOcR5pk", "rk-dF1lIbIg",
             "Nt9L1jCKGnE", "u9Mv98Gr5pY">>
      [] OTHER ->
           <<"Way9Dexny3w", "uYPbbksJxIg", "pBk4NYhWNMM", "73_1biulkYk",
             "wS_qbDztgVY", "giXco2jaZ_4">>

\* C8: for movies or tv with every upstream call failing, the returned items
\* are items of the fallback bucket the query selects, with the bucket's fixed
\* ids and the request's category as platform tag; "batman", movies, limit 6
\* returns the six batman items, each once.
C8_FallbackBucket ==
    \A c \in Clients :
        AllFailed(c) /\ resp[c].req.category \in StructuredCategories =>
            LET items == resp[c].items
                r == resp[c].req
            IN  /\ \A i \in 1..Len(items) :
                       /\ items[i].platform = r.category
                       /\ items[i].id \in Range(SelectedBucket(r.query))
                /\ r.limit >= 6 =>
                       /\ Len(items) = 6
                       /\ {items[i].id : i \in 1..6} = Range(SelectedBucket(r.query))

\* "batman", movies, limit 6 with the catalog search and the "similar to"
\* search failing
C8_Witness ==
    \E c \in Clients :
        /\ AllFailed(c)
        /\ resp[c].req = [category |-> "movies", query |-> "batman",
                          region |-> "US", limit |-> 6]
        /\ Len(resp[c].items) = 6

\* C9: a candidate that shares the source's non-empty collection scores
\* exactly 50 more (scores are held doubled) than the same candidate not
\* sharing it, and a candidate's score is the same whether it is scored alone
\* or in a pool with other candidates.
C9_FranchiseAndPool ==
    probe.phase = "scored" =>
        /\ Len(probe.linked) = 1 /\ Len(probe.plain) = 1
        /\ probe.media_type = "movie" /\ probe.source.collection # None =>
               probe.linked[1].score = probe.plain[1].score + 2 * 50
        /\ \E i \in 1..Len(probe.pooled) : probe.pooled[i].id = 2
        /\ \A i \in 1..Len(probe.pooled) :
               probe.pooled[i].id = 2 => probe.pooled[i].score = probe.linked[1].score

\* a movie source with a collection, the candidate scoring on other factors
\* too, pooled with a second candidate
C9_Witness ==
    /\ probe.phase = "scored"
    /\ probe.media_type = "movie"
    /\ probe.source.collection # None
    /\ probe.plain[1].score > 0
    /\ Len(probe.pooled) = 2

\* C10 (as claimed): a request whose category is not one of movies, tv,
\* youtube, tiktok is answered with status 400.
C10_InvalidCategory400 ==
    \A c \in Clients :
        /\ pc[c] = "done"
        /\ resp[c].req # NoRequest
        /\ resp[c].req.category \notin Range(valid_categories)
        => resp[c].status = 400

\* the searchQuery of the body is empty or whitespace only
BlankQuery(q) == \A i \in 1..Len(Chars(q)) : Chars(q)[i] = " "

\* C11: a request whose searchQuery is empty or whitespace only is answered
\* with status 422, and the service is not invoked for it: no pipeline step,
\* no upstream call, no cache write.
C11_BlankQueryRejected ==
    BlankQuery(session.query) =>
        /\ cache = <<>>
        /\ \A c \in Clients :
               /\ pc[c] \in {"idle", "done"}
               /\ calls[c] = {}
               /\ pc[c] = "done" => resp[c].status = 422 /\ resp[c].items = <<>>

\* a whitespace-only searchQuery has been answered
C11_Witness ==
    \E c \in Clients : session.query = "  " /\ pc[c] = "done" /\ resp[c].status = 422

\* C12 (as claimed): of the concurrent requests that missed the cache for one
\* key only one writes the entry: a request never writes over a live entry
\* that another request stored while it was in flight.
C12_SingleWriter ==
    [][\A c \in Handlers :
          pc[c] = "rank" /\ pc'[c] = "done" => ~CacheContains(cache, Key(req[c]))]_vars

\* the similarity score step 4 gave the candidate a card was made from
SimilarityOf(c, card) ==
    LET i == CHOOSE k \in 1..Len(candidates[c]) : ToString(candidates[c][k].id) = card.id
    IN  candidates[c][i].score

NonIncreasingSimilarity(c, items) ==
    \A i, j \in 1..Len(items) :
        i < j => SimilarityOf(c, items[i]) >= SimilarityOf(c, items[j])

\* C13: for movies and tv the ranking pass is skipped: the list a miss stores
\* and the list it returns keep the order of the structured pipeline, which
\* is non-increasing in similarity score
C13_StructuredOrderKept ==
    [][\A c \in Clients :
          /\ pc[c] = "rank" /\ pc'[c] = "done"
          /\ req[c].category \in StructuredCategories
          /\ results[c] # <<>> /\ \A i \in 1..Len(results[c]) : IsCard(results[c][i])
          => /\ CacheItems(cache', Key(req[c])) = results[c]
             /\ resp'[c].items = Slice(results[c], req[c].limit)
             /\ NonIncreasingSimilarity(c, resp'[c].items)]_vars

\* the platforms a providers payload lists for a region, mapped as
\* _get_tmdb_watch_providers maps them
PlatformsIn(payload, region) ==
    LET data == IF region = "US" THEN payload.US ELSE payload.GB
        providers == MappedPlatforms(data.flatrate)
    IN  IF providers # <<>> THEN providers ELSE MappedPlatforms(Slice(data.buy, 3))

\* C14: the platforms of every card a structured-media miss returns are the
\* platforms the catalog lists for the item in the region of the request
C14_RequestRegionAvailability ==
    \A c \in Clients :
        Answered(c) /\ ~resp[c].hit /\ resp[c].req.category \in StructuredCategories
        => \A i \in 1..Len(resp[c].items) :
              IsCard(resp[c].items[i])
              => \E p \in ProvidersPayloads :
                    resp[c].items[i].all_platforms = PlatformsIn(p, resp[c].req.region)

\* the platform of a list that comes earliest in the priority order
EarliestInPriority(platforms) ==
    LET k == CHOOSE n \in 1..Len(platform_priority) :
                 /\ platform_priority[n] \in Range(platforms)
                 /\ \A m \in 1..(n - 1) : platform_priority[m] \notin Range(platforms)
    IN  platform_priority[k]

\* C15: the primary platform of a card is the platform of its list that comes
\* earliest in the priority order, whatever the order of the list; it is the
\* first platform of the list only when no platform of the list has a priority
C15_PrimaryByPriority ==
    \A c \in Clients :
        Answered(c) =>
            \A i \in 1..Len(resp[c].items) :
                LET card == resp[c].items[i]
                IN  IsCard(card) =>
                        card.platform =
                            IF Range(card.all_platforms) \cap Range(platform_priority) # {}
                            THEN EarliestInPriority(card.all_platforms)
                            ELSE card.all_platforms[1]

\* an entry is stored under the key of r and its TTL has elapsed
ExpiredFor(r) ==
    /\ CacheStored(cache, Key(r)) # {}
    /\ \A i \in CacheStored(cache, Key(r)) : cache[i].age >= cache_ttl

\* C16: an entry whose TTL has elapsed is never served: a request for its key
\* takes the miss path, and when the pipeline has run again the key holds one
\* entry, written at that moment; nothing but the accesses themselves removes
\* or checks entries
C16_ExpiredNeverServed ==
    [][\A c \in Clients :
          /\ (/\ pc[c] \in {"idle", "done"}
              /\ elapsed'[c] = 0
              /\ req'[c].category \in Range(valid_categories)
              /\ ExpiredFor(req'[c])
              => /\ ~resp'[c].hit
                 /\ pc'[c] = Dispatch(req'[c].category)
                 /\ calls'[c] = {})
          /\ (pc[c] = "rank" /\ pc'[c] = "done"
              => /\ CacheStored(cache', Key(req[c])) # {}
                 /\ \A i \in CacheStored(cache', Key(req[c])) :
                        /\ i = Len(cache')
                        /\ cache'[i].age = 0
                        /\ Slice(cache'[i].items, req[c].limit) = resp'[c].items)]_vars

\* the pipeline has run again for a key whose stored entry has expired
C16_Witness ==
    \E c \in Clients : pc[c] = "rank" /\ calls[c] # {} /\ ExpiredFor(req[c])

\* C17: the cache never holds more than maxsize entries, and a write of a new
\* key into a full cache of live entries stores the key and drops an entry
\* that was there, so that the cache is as large as before
C17_CapacityBound ==
    [][/\ Len(cache') <= maxsize
       /\ \A c \in Clients :
             /\ req'[c] # NoRequest /\ req'[c] # req[c]
             /\ Len(cache) = maxsize
             /\ \A i \in 1..Len(cache) : cache[i].age < cache_ttl
             /\ CacheStored(cache, Key(req'[c])) = {}
             => /\ Len(cache') = maxsize
                /\ CacheStored(cache', Key(req'[c])) # {}
                /\ \E i \in 1..Len(cache) : CacheStored(cache', cache[i].key) = {}]_vars

\* more keys than the cache holds have been written and the cache is full
C17_Witness ==
    /\ probe.phase = "fill"
    /\ probe.next > maxsize + 1
    /\ Len(cache) = maxsize
    /\ \A i \in 1..Len(cache) : cache[i].age < cache_ttl

\* C18: when the discover call of a structured-media request raises after
\* the similar-items call has answered, what was gathered is dropped: the
\* response holds no card, only the "similar to" search result or the sample
\* catalog
C18_PartialResultsDiscarded ==
    \A c \in Clients :
        Answered(c) /\ ~resp[c].hit /\ DiscoverRaised \in calls[c]
        => \A i \in 1..Len(resp[c].items) : ~IsCard(resp[c].items[i])

InFlight(c) == pc[c] \notin {"idle", "done"}

\* how far the request of a client has come: every step of a pipeline is a
\* bounded batch of upstream calls
Stage(p, i) ==
    CASE p = "tmdb_search" -> 1
      [] p = "tmdb_details" -> 2
      [] p = "tmdb_similar" -> 3
      [] p = "tmdb_discover" -> 4
      [] p = "score" -> 5
      [] p = "avail" -> 6
      [] p = "tiktok" -> 6 + i
      [] p \in {"youtube", "yt_fallback"} -> 6 + Len(search_strategies)
      [] p = "rank" -> 7 + Len(search_strategies)
      [] OTHER -> 8 + Len(search_strategies)

\* C19: a request whose upstream calls all answer, fail or time out returns:
\* every step it takes brings it further along a pipeline of boundedly many
\* steps, whatever the calls answer, and it reaches its response
C19_EveryCallReturns ==
    /\ [][\A c \in Clients :
             InFlight(c) /\ <<pc[c], idx[c]>> # <<pc'[c], idx'[c]>>
             => Stage(pc'[c], idx'[c]) > Stage(pc[c], idx[c])]_vars
    /\ \A c \in Clients : InFlight(c) ~> pc[c] = "done"

\* a request returned although every upstream call it made failed
C19_Witness ==
    \E c \in Clients :
        /\ pc[c] = "done" /\ resp[c].status = 200 /\ ~resp[c].hit
        /\ resp[c].req.category \in {"tiktok", "movies"}
        /\ calls[c] # {} /\ allfail[c]

\* the candidates among the first 30 of a list of n that a platform carries,
\* in list order
CarriedInTop(pattern, n) ==
    SelectSeq([i \in 1..Min(n, 30) |-> i], LAMBDA i : Carried(pattern, i))

\* C20: step 5 asks the providers of the first 30 candidates of the sorted
\* list only, in list order, and of none after the one that gave the 15th
\* card; its output is the first 15 (or fewer) of the first 30 candidates that
\* a platform carries, in list order
C20_ScanLimits ==
    probe.phase = "scanned" =>
        LET carried == CarriedInTop(probe.pattern, probe.n)
            last == IF Len(carried) >= 15 THEN carried[15] ELSE Min(probe.n, 30)
        IN  /\ Len(probe.shows) = Min(Len(carried), 15)
            /\ \A k \in 1..Len(probe.shows) :
                   /\ probe.shows[k].id = ToString(carried[k])
                   /\ probe.shows[k].all_platforms # <<>>
            /\ probe.asked = [i \in 1..last |-> i]

\* a list longer than 30 whose 15th carried candidate comes before the 30th,
\* and one whose first 30 candidates hold fewer than 15 carried ones while
\* later candidates are carried too
C20_Witness ==
    /\ probe.phase = "scanned"
    /\ probe.n > 30
    /\ \/ probe.pattern = "odd" /\ Len(probe.shows) = 15 /\ Len(probe.asked) = 29
       \/ probe.pattern = "late" /\ Len(probe.shows) = 10 /\ Len(probe.asked) = 30

\* C21: the candidate pool holds an id once; the entries of the similar-items
\* strategy stay where that strategy put them, whatever the discovery
\* strategy returns, and discovery never adds the id of the seed
C21_PoolMerge ==
    probe.phase = "merged" =>
        LET similar_items == SimilarCandidates(probe.similar)
            pool == probe.pool
        IN  /\ \A i, j \in 1..Len(pool) : pool[i] = pool[j] => i = j
            /\ Len(pool) >= Len(similar_items)
            /\ \A i \in 1..Len(similar_items) : pool[i] = similar_items[i]
            /\ \A i \in (Len(similar_items) + 1)..Len(pool) : pool[i] # probe.media_id

\* both strategies returned candidate 1 and discovery returned the seed too
C21_Witness ==
    /\ probe.phase = "merged"
    /\ probe.discover.kind = "ok" /\ probe.similar.kind = "ok"
    /\ probe.media_id = 3
    /\ probe.similar.results = <<1>>
    /\ probe.discover.results = <<1, 3>>
    /\ probe.pool = <<1>>

\* twice the score of the factor table for a pair of details
TableScoreTwice(s, c) ==
    LET shared(a, b) == Cardinality({x \in Range(a) : x \in Range(b)})
        capped(points, cap) == IF points > cap THEN cap ELSE points
        within(a, b, d) == a - b < d /\ b - a < d
    IN  (IF s.collection # None /\ s.collection = c.collection THEN 100 ELSE 0)
      + (IF s.director # None /\ s.director = c.director THEN 60 ELSE 0)
      + capped(10 * shared(s.cast, c.cast), 50)
      + capped(20 * shared(s.genres, c.genres), 40)
      + capped(4 * shared(s.keywords, c.keywords), 30)
      + capped(15 * shared(s.companies, c.companies), 30)
      + (IF s.budget > 0 /\ c.budget > 0
            /\ (s.budget <= c.budget => 2 * s.budget > c.budget)
            /\ (c.budget <= s.budget => 2 * c.budget > s.budget)
         THEN 20 ELSE 0)
      + (IF s.runtime > 0 /\ c.runtime > 0 /\ within(s.runtime, c.runtime, 30)
         THEN 10 ELSE 0)
      + (IF s.rating > 0 /\ c.rating > 0 /\ within(s.rating, c.rating, 15)
         THEN 10 ELSE 0)
      + (IF s.release_year # Null /\ c.release_year # Null
            /\ within(s.release_year, c.release_year, 6)
         THEN 10 ELSE 0)

\* C22: the score of a candidate is the sum of the ten factors of the table,
\* each capped at its maximum, so that it lies in 0..180 (scores are held
\* doubled)
C22_ScoreIsTableSum ==
    probe.phase = "scored" =>
        LET ok(p) == [kind |-> "ok", payload |-> p]
            s == GetTmdbDetails(1, probe.media_type, ok(probe.source))
            plain == GetTmdbDetails(2, probe.media_type, ok(probe.candidate))
            linked == GetTmdbDetails(2, probe.media_type,
                          ok([probe.candidate EXCEPT !.collection = probe.source.collection]))
        IN  /\ probe.plain[1].score = TableScoreTwice(s, plain)
            /\ probe.linked[1].score = TableScoreTwice(s, linked)
            /\ probe.plain[1].score \in 0..(2 * 180)
            /\ probe.linked[1].score \in 0..(2 * 180)

\* a candidate that reaches the cap of every capped factor and earns every
\* other factor scores 180; without the shared collection it scores 130
C22_Witness ==
    /\ probe.phase = "scored"
    /\ probe.media_type = "movie"
    /\ probe.source = PayloadC
    /\ probe.linked[1].score = 2 * 180
    /\ probe.plain[1].score = 2 * 130

\* C23: the scored list is in non-increasing score order, and candidates with
\* equal scores keep the order they had in the pool (candidate 3 precedes
\* candidate 2 in the pool <<1, 3, 2>> of the scoring pass)
C23_StableScoreOrder ==
    probe.phase = "scored" =>
        \A i, j \in 1..Len(probe.pooled) :
            i < j =>
                /\ probe.pooled[i].score >= probe.pooled[j].score
                /\ probe.pooled[i].score = probe.pooled[j].score
                   => probe.pooled[i].id = 3 /\ probe.pooled[j].id = 2

\* two candidates of the pool have the same positive score
C23_Witness ==
    /\ probe.phase = "scored"
    /\ Len(probe.pooled) = 2
    /\ probe.pooled[1].score = probe.pooled[2].score
    /\ probe.pooled[1].score > 0

\* C24: buy offers are consulted only for a candidate without any flatrate
\* offer, and then the first 3 of them only; a candidate with a flatrate offer
\* gets its platforms from the flatrate offers alone
C24_FlatrateBeforeBuy ==
    probe.phase = "resolved" =>
        IF probe.flatrate # <<>>
        THEN probe.platforms = MappedPlatforms(probe.flatrate)
        ELSE probe.platforms = MappedPlatforms(Slice(probe.buy, 3))














\* the calls of steps 3 and 5 of the structured pipeline
StructuredCalls == {"tmdb/similar", "tmdb/discover", "tmdb/providers", "tmdb/title"}

C26_FallbackAfterBothStages ==
    \A c \in Clients :
        /\ pc[c] = "rank"
        /\ req[c].category \in StructuredCategories
        /\ results[c] = MockMovieResults(req[c].query, req[c].category)
        => /\ "tmdb/search" \in calls[c]
           /\ "youtube/search" \in calls[c]


\* the video ids an answer lists, in order
RECURSIVE ListedIds(_)
ListedIds(items) ==
    IF items = <<>> THEN <<>>
    ELSE (IF Head(items) = None THEN <<>> ELSE <<Head(items)>>) \o ListedIds(Tail(items))

\* the first position of id in ids
FirstAt(ids, id) == CHOOSE i \in 1..Len(ids) : ids[i] = id /\ \A j \in 1..(i - 1) : ids[j] # id

\* C27: the short-form list is the items of every variant that answered,
\* first variant first, each id once at the place of its first occurrence,
\* cut to 15; a variant that failed takes nothing from the other, and the
\* fallback catalog is the list only when no variant listed an item.
C27_ShortsMerge ==
    probe.phase = "listed" =>
        LET all == ListedIds(probe.first.items) \o ListedIds(probe.second.items)
            ids == {all[i] : i \in 1..Len(all)}
            out == probe.shorts
        IN  IF all = <<>> THEN out = MockShortsResults
            ELSE /\ Len(out) = Min(Cardinality(ids), 15)
                 /\ \A i \in 1..Len(out) :
                        /\ out[i].platform = "tiktok"
                        /\ out[i].id \in ids
                        /\ \A j \in (i + 1)..Len(out) :
                               FirstAt(all, out[i].id) < FirstAt(all, out[j].id)
                 /\ \A id \in ids \ {out[i].id : i \in 1..Len(out)} :
                        \A i \in 1..Len(out) : FirstAt(all, out[i].id) < FirstAt(all, id)

\* the first variant lists ten videos, the second seven of them and ten more:
\* seventeen ids, cut to 15
C27_Witness ==
    /\ probe.phase = "listed"
    /\ probe.first.items = IdRun(1, 10)
    /\ probe.second.items = IdRun(8, 17)
    /\ Ids(probe.shorts) = IdRun(1, 15)


\* C28: the entry a call wrote is found only by a call with the same
\* category, query and region, whatever characters the strings hold.
C28_KeyPerTriple ==
    probe.phase = "looked up" => (probe.hit <=> probe.reader = probe.writer)


\* the arguments of a request, without its limit
Triple(r) == <<r.category, r.query, r.region>>

\* C29: a fallback list that answered a request whose upstream calls all
\* failed is stored like any other: a request for the same key less than the
\* TTL later is a hit, answered from that list with no upstream call.
C29_FallbackIsCached ==
    [][\A c \in Clients : \A limit \in Limits :
          IF ValidationError(Body(limit)) THEN TRUE
          ELSE LET r == NewRequest(limit)
               IN  /\ AllFailed(c)
                   /\ elapsed[c] < cache_ttl
                   /\ Triple(r) = Triple(resp[c].req)
                   /\ Request(c)
                   /\ req'[c] = r
                   => /\ pc'[c] = "done"
                      /\ resp'[c].hit
                      /\ resp'[c].status = 200
                      /\ calls'[c] = {}
                      /\ resp'[c].items # <<>>
                      /\ Range(resp'[c].items) \subseteq Range(FallbackCatalog(r))
                      /\ limit = resp[c].req.limit => resp'[c].items = resp[c].items
      ]_vars

\* a hit answered with items of the youtube fallback catalog, some time
\* after they were stored
C29_Witness ==
    \E c \in Clients :
        /\ Answered(c)
        /\ resp[c].hit
        /\ calls[c] = {}
        /\ resp[c].req.category = "youtube"
        /\ resp[c].items # <<>>
        /\ Range(resp[c].items) \subseteq Range(MockYoutubeResults)
        /\ \E i \in 1..Len(cache) : cache[i].age > 0


\* C30: the list that answers a request for movies, tv, youtube or tiktok is
\* never empty, whatever the upstream calls did, and no list of an entry
\* the cache can serve is empty.
C30_NeverEmpty ==
    /\ \A c \in Clients :
           Answered(c) /\ resp[c].req.category \in Range(valid_categories) =>
               resp[c].items # <<>>
    /\ \A c \in Clients :
           pc[c] = "rank" /\ req[c].category \in Range(valid_categories) =>
               results[c] # <<>>
    /\ \A i \in 1..Len(cache) : cache[i].age < cache_ttl => cache[i].items # <<>>

\* a tv request with limit 1 whose upstream calls answered but left no card:
\* the fallback catalog is the stored list
C30_Witness ==
    \E c \in Clients :
        /\ Answered(c)
        /\ ~resp[c].hit
        /\ ~allfail[c]
        /\ resp[c].req.category = "tv"
        /\ resp[c].req.limit = 1
        /\ "tmdb/providers" \in calls[c]
        /\ Len(resp[c].items) = 1
        /\ \E i \in 1..Len(cache) :
               /\ cache[i].key = Key(resp[c].req)
               /\ Range(cache[i].items) = Range(FallbackCatalog(resp[c].req))

====
